---- MODULE Spec2Model ----
(***************************************************************************)
(* Model of ghospel's batch transcription pipeline:                        *)
(*   transcription.Service (TranscribeFiles, transcribeFile,               *)
(*   ensureModelDownloaded, prepareAudioFile, getOutputPath),              *)
(*   models.Manager.Download, audio.Processor (ConvertToWav, Cleanup) and  *)
(*   whisper.Client.Transcribe.                                            *)
(*                                                                         *)
(* A behaviour is up to two invocations of `ghospel transcribe` over the    *)
(* same discovered file list, sharing one file system (model cache,        *)
(* /tmp/ghospel, output directories).  An invocation may start while the   *)
(* other is still running (two processes) or after it has returned (a      *)
(* re-run).  Every blocking call to a collaborator (HTTP, ffmpeg,          *)
(* whisper-cli, os.WriteFile) is one step whose outcome is chosen          *)
(* nondeterministically among the outcomes the call can have.              *)
(*                                                                         *)
(* Specifications, all over the same variables:                            *)
(*   Spec      the invocations one after the other, default options;       *)
(*   SpecConc  the invocations at the same time, each over a single file;  *)
(*   SpecDisc  one invocation over any list of input paths (files,         *)
(*             directories, paths that do not exist), with or without      *)
(*             --recursive;                                                *)
(*   SpecWide  the invocations one after the other over a single file,     *)
(*             with any options, and `ghospel cache clear` in between;     *)
(*   SpecFmt   TextFormatter.Format on a text, then on its own result;     *)
(*   SpecParse whisper.Client.Transcribe on what whisper-cli printed.      *)
(* opts.Workers is a validated worker count (at least 1); the service      *)
(* never reads it.                                                         *)
(***************************************************************************)
EXTENDS Integers, Sequences, FiniteSets, TLC

\* ---------------------------------------------------------------- bounds
MaxJobs == 2
MaxWorkers == 1
MaxInputs == 2

\* The invocations: a first one and a second one (a re-run, or another
\* process started meanwhile).
Runs == { 1, 2 }

None == "none"

\* ------------------------------------------------------------ input data
\* Audio files that discovery can return: [dir, base, ext].
Files ==
  { [dir |-> "A", base |-> "a", ext |-> ".mp3"],
    [dir |-> "A", base |-> "a", ext |-> ".wav"],
    [dir |-> "B", base |-> "a", ext |-> ".MP3"] }

\* The job lists: sequences of distinct discovered files, in the order in
\* which os.ReadDir and filepath.Walk list them (sorted by path).
RECURSIVE SeqsUpTo(_)
SeqsUpTo(n) ==
  IF n = 0 THEN { <<>> }
  ELSE LET S == SeqsUpTo(n - 1)
       IN  S \cup { Append(s, f) : s \in { t \in S : Len(t) = n - 1 }, f \in Files }

PathLess(f, g) ==
  \/ f.dir = "A" /\ g.dir = "B"
  \/ f.dir = g.dir /\ f.ext = ".mp3" /\ g.ext = ".wav"

Sorted(s) == \A i, j \in 1..Len(s) : i < j => PathLess(s[i], s[j])

Batches == { s \in SeqsUpTo(MaxJobs) : Len(s) >= 1 /\ Sorted(s) }

\* Single files.
Singles == { << f >> : f \in Files }

\* models.Manager.AvailableModels: the fixed catalog.
AvailableModels ==
  { "tiny", "tiny.en", "base", "base.en", "small", "small.en",
    "medium", "medium.en", "large-v3", "large-v3-turbo" }

\* Values of --model tried: one catalog name and one unknown name.
ModelChoices == { "base", "nope" }

\* Values of --output-dir tried.
OutputDirChoices == { "", "out" }

\* config.DefaultConfig().CacheDir (~/.whisper), and the values of --cache-dir
\* tried.
DefaultCacheDir == "home/.whisper"
CacheDirChoices == { DefaultCacheDir, "elsewhere" }

\* Values of --language (default "auto") and --prompt tried.
LanguageChoices == { "auto", "de" }
PromptChoices == { "", "names" }

\* ------------------------------------------------------------- discovery
\* The file tree the inputs are resolved in: directory "." holds the
\* directories A and B; A holds a.mp3, a.wav and notes.txt, B holds a.MP3.
\* A path is [dir, base, ext]; a directory has an empty base.
Notes == [dir |-> "A", base |-> "notes", ext |-> ".txt"]
Missing == [dir |-> "A", base |-> "gone", ext |-> ".mp3"]
Dir(d) == [dir |-> d, base |-> "", ext |-> ""]
DirNames == { ".", "A", "B" }

IsDir(p) == p.base = "" /\ p.dir \in DirNames
\* audio.NewProcessor's default temp directory, and an audio file of the
\* user's that lies in it under the name ConvertToWav gives to a.mp3's
\* conversion.
tempDir == "/tmp/ghospel"
Squatter == [dir |-> tempDir, base |-> "a_converted", ext |-> ".wav"]

Exists(p) == IsDir(p) \/ p \in Files \cup { Notes, Squatter }

\* The paths given on the command line.
InputPaths == Files \cup { Notes, Missing } \cup { Dir(d) : d \in DirNames }

\* strings.ToLower on the extensions in use.
ToLower(ext) == IF ext = ".MP3" THEN ".mp3" ELSE ext

\* Service.isAudioFile: the lower-cased extension is a supported one.
supportedExts == { ".mp3", ".m4a", ".wav", ".flac", ".mp4", ".aac", ".ogg" }
isAudioFileExact(p) == p.ext \in supportedExts
isAudioFile(p) == ToLower(p.ext) \in supportedExts

\* os.ReadDir(d) without the directories, in name order.
DirFiles(d) ==
  CASE d = "A" -> << [dir |-> "A", base |-> "a", ext |-> ".mp3"],
                     [dir |-> "A", base |-> "a", ext |-> ".wav"],
                     Notes >>
    [] d = "B" -> << [dir |-> "B", base |-> "a", ext |-> ".MP3"] >>
    [] OTHER -> << >>

\* filepath.Walk(d): every file below d, in lexical order.
WalkFiles(d) ==
  IF d = "." THEN DirFiles("A") \o DirFiles("B") ELSE DirFiles(d)

\* What one input path adds to audioFiles.
FoundAt(p, rec) ==
  IF IsDir(p)
    THEN SelectSeq(IF rec THEN WalkFiles(p.dir) ELSE DirFiles(p.dir), isAudioFile)
    ELSE IF isAudioFile(p) THEN << p >> ELSE << >>

\* Service.findAudioFiles: the first input os.Stat cannot access ends the
\* discovery with an error and no file.
RECURSIVE FindFrom(_, _, _, _)
FindFrom(ins, rec, i, found) ==
  IF i > Len(ins) THEN [err |-> FALSE, files |-> found]
  ELSE IF ~Exists(ins[i]) THEN [err |-> TRUE, files |-> << >>]
  ELSE FindFrom(ins, rec, i + 1, found \o FoundAt(ins[i], rec))

findAudioFiles(ins, rec) == FindFrom(ins, rec, 1, << >>)

\* The lists of one to MaxInputs input paths.
RECURSIVE PathSeqsUpTo(_)
PathSeqsUpTo(n) ==
  IF n = 0 THEN { << >> }
  ELSE LET S == PathSeqsUpTo(n - 1)
       IN  S \cup { Append(s, p) : s \in { t \in S : Len(t) = n - 1 }, p \in InputPaths }

InputLists == { s \in PathSeqsUpTo(MaxInputs) : Len(s) >= 1 }

\* ------------------------------------------------------------- path rules
\* audio.Processor.ConvertToWav: tempDir/<basename without ext>_converted.wav.
\* The temp path is identified by the base name it is built from.
TempPath(f) == f.base

TempPaths == { TempPath(f) : f \in Files }

\* ConvertToWav's outputName, strings.TrimSuffix(base, ext) + "_converted.wav",
\* on the base names in use, and the path of the temp file of a base name.
ConvertedName(base) ==
  CASE base = "a" -> "a_converted"
    [] base = "a_converted" -> "a_converted_converted"
TempFileAt(slot) == [dir |-> tempDir, base |-> ConvertedName(slot), ext |-> ".wav"]

\* The batches that hold the audio file lying in the temp directory: it
\* alone, or with another file before or after it.
TempBatches ==
  { << Squatter >> } \cup { << f, Squatter >> : f \in Files }
                    \cup { << Squatter, f >> : f \in Files }

\* transcription.Service.isAudioFile / prepareAudioFile: lower-cased ext.
IsWav(f) == ToLower(f.ext) = ".wav"

VARIABLES
  opts,        \* transcription.Options: [Model, Workers, OutputDir]
  audioFiles,  \* the list findAudioFiles returned
  runPc,       \* per run: "idle" | "loop" | "done"
  force,       \* per run: the --force flag given
  ret,         \* per run: what TranscribeFiles returned ("none" until it returns)
  cur,         \* per run: index of the loop variable i (1-based)
  jpc,         \* per run: position inside transcribeFile for job cur
  wavPath,     \* per run: local wavPath of the current job
  needsCleanup,\* per run: local needsCleanup of the current job
  status,      \* per run, per job: Pending/Running/Succeeded/Failed/Skipped
  stage,       \* per run, per job: last pipeline stage reached
  calls,       \* per run, per job: collaborator calls made, in order
  wrote,       \* per run, per job: the job wrote to its output path
  successCount,\* per run
  failedCount, \* per run
  totalWords,  \* per run
  bar,         \* per run: progress bar count
  startedAfter,\* per run: the runs that had returned when this one started
  existedAtStart, \* per run: the output paths that existed when it started
  foundCount,  \* per run: the count printed as "Found %d audio file(s) to transcribe"
  concurrent,  \* TRUE when invocations may overlap in time (separate processes)
  modelFile,   \* cache dir: per catalog model [state, fds]
  tempFiles,   \* /tmp/ghospel: per temp path Absent or [owner, complete]
  outFiles,    \* output files: per output path Absent or [owner, complete]
  engineTxt,   \* /tmp/ghospel_output.txt: the job that wrote it last, or NoJob
  inputAudio,  \* per input file of the batch: "intact", "overwritten", "removed"
  inputs,      \* the input paths given to TranscribeFiles
  pcm16k,      \* the .wav files on disk hold 16 kHz mono PCM
  recursive,   \* opts.Recursive
  engineArgs,  \* per run: the arguments of the last whisper-cli command
  modelNote,   \* what happened last to the requested model's cache file:
               \* "downloaded" | "cleared" | "cleaned" | "none"
  text,        \* TextFormatter.Format: its argument
  fpc,         \* Format: "idle" | "start" | "loop" | "done" | "again"
  sentences,   \* Format: the local `sentences`
  processedSentenceIndex, \* Format: the local of that name
  finalFormattedText,     \* Format: the strings.Builder of that name
  result,      \* Format: the string returned
  again,       \* Format applied to the rejoined paragraphs of result
  engineOut,   \* Client.Transcribe: what whisper-cli prints, line by line
  engineFails, \* Client.Transcribe: whisper-cli exits with an error
  ppc,         \* Client.Transcribe: "idle" | "run" | "lines" | "done"
  output,      \* Client.Transcribe: the local `output`
  lineNo,      \* Client.Transcribe: lines taken by the loop so far
  inTranscription, \* Client.Transcribe: the local of that name
  transcription,   \* Client.Transcribe: the strings.Builder of that name
  transcribed, \* Client.Transcribe: the pair returned, [result, err]
  configFile,  \* ~/.config/ghospel/config.yaml: NoConfigFile or its scalars by key
  cfgCall,     \* the last `ghospel config` command: [op, key, value, err, out]
  lastSet,     \* per key: the value of the last `config set` that returned nil
  cliRun       \* the last `ghospel transcribe` command line: [flags, opts]

\* The formatter's and the parser's variables.
fmtVars == << text, fpc, sentences, processedSentenceIndex, finalFormattedText,
              result, again >>
parseVars == << engineOut, engineFails, ppc, output, lineNo, inTranscription,
                transcription, transcribed >>

\* The configuration file and the `ghospel config` commands.
cfgVars == << configFile, cfgCall, lastSet, cliRun >>

\* What a run is given and never changes.
givenVars == << opts, audioFiles, inputs, recursive, pcm16k, fmtVars, parseVars,
               cfgVars >>

\* The batch pipeline's variables.
pipeVars == << opts, audioFiles, inputs, recursive, pcm16k, runPc, force, ret, cur, jpc,
               wavPath, needsCleanup, status, stage, calls, wrote, successCount,
               failedCount, totalWords, bar, startedAfter, existedAtStart, foundCount,
               concurrent, modelFile, tempFiles, outFiles, engineTxt, inputAudio,
               engineArgs, modelNote, cfgVars >>

vars == << pipeVars, fmtVars, parseVars >>

runVars == << runPc, force, ret, startedAfter, existedAtStart, foundCount, concurrent >>
fsVars == << modelFile, tempFiles, outFiles, engineTxt, inputAudio >>

\* transcription.Service.getOutputPath: dir (or OutputDir) + base + "." + Format.
getOutputPath(f) ==
  << IF opts.OutputDir # "" THEN opts.OutputDir ELSE f.dir, f.base >>

OutPaths ==
  { << d, f.base >> : d \in { g.dir : g \in Files \cup { Squatter } }
                            \cup (OutputDirChoices \ { "" }),
                      f \in Files \cup { Squatter } }

\* The output path as a file: <dir>/<base>.txt.
OutFileAt(p) == [dir |-> p[1], base |-> p[2], ext |-> ".txt"]

NJobs == Len(audioFiles)
Jobs == 1..NJobs
File(j) == audioFiles[j]


JobId(r, j) == << r, j >>

\* ------------------------------------------------------------------ Init
NoFile == [state |-> "absent", fds |-> {}]

\* No job, and the entry of a path at which there is no file.
NoJob == << 0, 0 >>
Absent == [owner |-> NoJob, complete |-> FALSE]

\* models.Manager.AvailableModels (Path) and whisper.Client.Transcribe
\* (modelPath): filepath.Join(dir, "ggml-" + name + ".bin").
ModelPath(dir, name) == << dir, name >>

\* No whisper-cli command yet.
NoArgs == [model |-> << "", "" >>, audio |-> "", language |-> "", prompt |-> ""]

\* Client.Transcribe has not returned.
NotReturned == [result |-> << >>, err |-> "none"]

\* No invocation has started and the file system holds no model, no temp file
\* and no output.
RunsIdle ==
  /\ runPc = [r \in Runs |-> "idle"]
  /\ force = [r \in Runs |-> FALSE]
  /\ ret = [r \in Runs |-> None]
  /\ cur = [r \in Runs |-> 0]
  /\ jpc = [r \in Runs |-> None]
  /\ wavPath = [r \in Runs |-> None]
  /\ needsCleanup = [r \in Runs |-> FALSE]
  /\ status = [r \in Runs |-> [j \in 1..Len(audioFiles) |-> "Pending"]]
  /\ stage = [r \in Runs |-> [j \in 1..Len(audioFiles) |-> None]]
  /\ calls = [r \in Runs |-> [j \in 1..Len(audioFiles) |-> << >>]]
  /\ wrote = [r \in Runs |-> [j \in 1..Len(audioFiles) |-> FALSE]]
  /\ successCount = [r \in Runs |-> 0]
  /\ failedCount = [r \in Runs |-> 0]
  /\ totalWords = [r \in Runs |-> 0]
  /\ bar = [r \in Runs |-> 0]
  /\ startedAfter = [r \in Runs |-> {}]
  /\ existedAtStart = [r \in Runs |-> {}]
  /\ foundCount = [r \in Runs |-> 0]
  /\ modelFile = [m \in AvailableModels |-> NoFile]
  /\ tempFiles = [p \in TempPaths |-> Absent]
  /\ outFiles = [p \in OutPaths |-> Absent]
  /\ engineTxt = NoJob
  /\ inputAudio = [f \in { audioFiles[j] : j \in 1..Len(audioFiles) } |-> "intact"]
  /\ engineArgs = [r \in Runs |-> NoArgs]
  /\ modelNote = "none"

\* No call of TextFormatter.Format and none of Client.Transcribe is modelled.
FormatterIdle ==
  /\ text = << >>
  /\ fpc = "idle"
  /\ sentences = << >>
  /\ processedSentenceIndex = 0
  /\ finalFormattedText = << >>
  /\ result = << >>
  /\ again = << >>

ParserIdle ==
  /\ engineOut = << >>
  /\ engineFails = FALSE
  /\ ppc = "idle"
  /\ output = << >>
  /\ lineNo = 0
  /\ inTranscription = FALSE
  /\ transcription = << >>
  /\ transcribed = NotReturned

\* ------------------------------------------------------------ config file
\* The keys of `config set` and `config get`.
ConfigKeys == { "model", "cache_dir", "workers", "language", "output_format", "ffmpeg_path" }

\* strconv.Itoa and its inverse on the numbers in use.
Digits == << "0", "1", "2", "3", "4", "5", "6", "7", "8", "9" >>
Itoa(n) == Digits[n + 1]
Atoi(str) == CHOOSE n \in 0..9 : Digits[n + 1] = str

\* config.DefaultConfig, the fields that have a key.
DefaultConfig ==
  [model |-> "large-v3-turbo", cache_dir |-> DefaultCacheDir, workers |-> 4,
   language |-> "auto", output_format |-> "txt", ffmpeg_path |-> "/opt/homebrew/bin/ffmpeg"]

\* yaml.Marshal of a field: a scalar with its text; a string that would read
\* as another type (empty, a number) is written in quotes, an int in digits.
LooksNumeric(str) == \E n \in 0..9 : Digits[n + 1] = str
EncodeString(str) ==
  [style |-> IF str = "" \/ LooksNumeric(str) THEN "quoted" ELSE "plain", text |-> str]
EncodeInt(n) == [style |-> "plain", text |-> Itoa(n)]

\* yaml.Unmarshal of a scalar into a string field and into an int field.
DecodeString(node) == node.text
DecodeInt(node) == Atoi(node.text)

Marshal(cfg) ==
  [k \in ConfigKeys |-> IF k = "workers" THEN EncodeInt(cfg[k]) ELSE EncodeString(cfg[k])]
Unmarshal(data) ==
  [k \in ConfigKeys |-> IF k = "workers" THEN DecodeInt(data[k]) ELSE DecodeString(data[k])]

\* There is no configuration file: no scalar under any key.
NoConfigFile == << >>
FileMissing(file) == DOMAIN file = {}

\* config.Load: the configuration read, or the defaults when there is no file.
Load(file) == IF FileMissing(file) THEN DefaultConfig ELSE Unmarshal(file)

\* The file after config.Load: a missing file is created with the defaults.
Loaded(file) == IF FileMissing(file) THEN Marshal(DefaultConfig) ELSE file

\* config.Set's tests of the value.
validModels == { "tiny", "base", "small", "medium", "large-v3", "large-v3-turbo" }
validFormats == { "txt", "srt", "vtt" }
SetFails(key, value) ==
  \/ key \notin ConfigKeys
  \/ key = "model" /\ value \notin validModels
  \/ key = "output_format" /\ value \notin validFormats

\* config.Set's switch: the field's new value ("workers" is a placeholder).
SetField(key, value) == IF key = "workers" THEN 4 ELSE value

\* config.Get: what fmt.Println prints for the key.
Printed(cfg, key) == IF key = "workers" THEN Itoa(cfg[key]) ELSE cfg[key]

\* The keys and values tried: a valid model, a value valid for no checked
\* key, a format, a number; and a key that does not exist.
KeysTried == ConfigKeys \cup { "prompt" }
ValuesTried == { "base", "bogus", "srt", "8" }

NoCall == [op |-> "none", key |-> "", value |-> "", err |-> FALSE, out |-> ""]
Unset == "unset"

\* A flag of the command line: whether it was given, and its value.
NotGiven == [given |-> FALSE, value |-> ""]
NotGivenInt == [given |-> FALSE, value |-> 0]
Given(v) == [given |-> TRUE, value |-> v]

\* c.String / c.Int: the flag's value, or the flag's default when not given.
FlagValue(flag, default) == IF flag.given THEN flag.value ELSE default

\* "Apply config defaults": the config value replaces a flag value that
\* equals the flag's default, given or not.
ApplyConfigDefault(fromFlag, isDefault, fromCfg, cfgUsable) ==
  IF isDefault /\ cfgUsable THEN fromCfg ELSE fromFlag

\* The transcribe action's options for model, workers and cache directory.
ResolveOptions(flags, cfg) ==
  LET model == FlagValue(flags.model, "large-v3-turbo")
      workers == FlagValue(flags.workers, 4)
      cacheDir == FlagValue(flags.cacheDir, "")
  IN [Model |-> ApplyConfigDefault(model, model = "large-v3-turbo",
                              cfg.model, cfg.model # ""),
      Workers |-> ApplyConfigDefault(workers, workers = 4,
                                cfg.workers, cfg.workers > 0),
      CacheDir |-> ApplyConfigDefault(cacheDir, cacheDir = "",
                                 cfg.cache_dir, TRUE)]

\* The command lines tried: each flag absent, given with its default's
\* value, or given with another value.
FlagsTried ==
  [model : { NotGiven, Given("large-v3-turbo"), Given("tiny") },
   workers : { NotGivenInt, Given(4), Given(2) },
   cacheDir : { NotGiven, Given("alt") }]

NoCliRun == [ran |-> FALSE]

\* No `ghospel config` command has run and there is no configuration file.
ConfigIdle ==
  /\ configFile = NoConfigFile
  /\ cfgCall = NoCall
  /\ lastSet = [k \in ConfigKeys |-> Unset]
  /\ cliRun = NoCliRun

\* The options of the runs that leave cache directory, language and prompt
\* at their defaults.
DefaultOptions ==
  [Model : ModelChoices, Workers : 1..MaxWorkers, OutputDir : OutputDirChoices,
   CacheDir : { DefaultCacheDir }, Language : { "auto" }, Prompt : { "" }]

\* Every option tried.
AllOptions ==
  [Model : ModelChoices, Workers : 1..MaxWorkers, OutputDir : OutputDirChoices,
   CacheDir : CacheDirChoices, Language : LanguageChoices, Prompt : PromptChoices]

\* The inputs are the audio files themselves, which discovery returns as
\* they are.
InitCommon ==
  /\ opts \in DefaultOptions
  /\ inputs \in Batches
  /\ recursive = FALSE
  /\ pcm16k = TRUE
  /\ audioFiles = findAudioFiles(inputs, recursive).files
  /\ RunsIdle
  /\ FormatterIdle
  /\ ParserIdle
  /\ ConfigIdle

\* Invocations one after the other (a run and its re-runs).
Init == InitCommon /\ concurrent = FALSE

\* Two invocations at the same time, each over one file.
InitConc == InitCommon /\ concurrent = TRUE /\ Len(audioFiles) = 1

\* One invocation over any list of input paths that gives at most MaxJobs
\* files.
InitDisc ==
  /\ opts \in DefaultOptions
  /\ inputs \in InputLists
  /\ recursive \in BOOLEAN
  /\ pcm16k = TRUE
  /\ audioFiles = findAudioFiles(inputs, recursive).files
  /\ Len(audioFiles) <= MaxJobs
  /\ concurrent = FALSE
  /\ RunsIdle
  /\ FormatterIdle
  /\ ParserIdle
  /\ ConfigIdle

\* Invocations one after the other over a single file, with every option
\* and either encoding of the .wav files.
InitWide ==
  /\ opts \in AllOptions
  /\ inputs \in Singles
  /\ recursive = FALSE
  /\ pcm16k \in BOOLEAN
  /\ audioFiles = findAudioFiles(inputs, recursive).files
  /\ concurrent = FALSE
  /\ RunsIdle
  /\ FormatterIdle
  /\ ParserIdle
  /\ ConfigIdle

\* ---------------------------------------------------------------- helpers
\* audio.Processor.Cleanup: os.Remove when the path lies under tempDir.
\* wavPath is either "input" (the input file itself) or a temp path.
Cleanup(tf, path) ==
  IF path \in TempPaths THEN [tf EXCEPT ![path] = Absent] ELSE tf

\* transcribeFile's deferred call: `if needsCleanup { defer Cleanup(wavPath) }`.
Deferred(tf, r) ==
  IF needsCleanup[r] THEN Cleanup(tf, wavPath[r]) ELSE tf

\* The input files after a write to, or a removal of, the file at path p.
Touched(ia, p, what) == [g \in DOMAIN ia |-> IF g = p THEN what ELSE ia[g]]

\* The input files after the deferred Cleanup.
DeferredInputs(ia, r) ==
  IF needsCleanup[r] /\ wavPath[r] \in TempPaths
    THEN Touched(ia, TempFileAt(wavPath[r]), "removed") ELSE ia

\* Variants of the loop: one that takes a failed file again, one that leaves
\* the loop at the first error.
NextIndexRetry(i, failed) == IF failed THEN i ELSE i + 1
NextIndexAbort(i, failed) == IF failed THEN Len(audioFiles) + 1 ELSE i + 1

\* TranscribeFiles' `for i, file := range audioFiles`: the index after job i,
\* whether transcribeFile returned an error or not.
NextIndex(i, failed) == i + 1

\* TranscribeFiles' return value once the loop is over.
ReturnValue(nfailed) == "nil"

\* service.countWords of the transcript whisper-cli gives for file f.
WordCount(f) == IF IsWav(f) THEN 5 ELSE IF f.dir = "A" THEN 3 ELSE 7

\* Variant that adds the words of every job, failed ones too.
WordsCountedAlways(st, f) == WordCount(f)

\* `totalWords += fileStats.WordCount`, in the branch without error only.
WordsCounted(st, f) == IF st = "Succeeded" THEN WordCount(f) ELSE 0

\* The loop body after transcribeFile returned for job cur[r]: count the
\* outcome, advance the progress bar (only created for more than one file),
\* move to the next file.
EndJob(r, st) ==
  /\ status' = [status EXCEPT ![r][cur[r]] = st]
  /\ successCount' = [successCount EXCEPT ![r] = IF st = "Succeeded" THEN @ + 1 ELSE @]
  /\ failedCount' = [failedCount EXCEPT ![r] = IF st = "Failed" THEN @ + 1 ELSE @]
  /\ totalWords' = [totalWords EXCEPT ![r] = @ + WordsCounted(st, File(cur[r]))]
  /\ bar' = [bar EXCEPT ![r] = IF NJobs > 1 THEN @ + 1 ELSE @]
  /\ cur' = [cur EXCEPT ![r] = NextIndex(@, st = "Failed")]
  /\ jpc' = [jpc EXCEPT ![r] = None]
  /\ wavPath' = [wavPath EXCEPT ![r] = None]
  /\ needsCleanup' = [needsCleanup EXCEPT ![r] = FALSE]

\* A step inside transcribeFile that moves on to position `next`.
Goto(r, next) ==
  /\ jpc' = [jpc EXCEPT ![r] = next]
  /\ UNCHANGED << status, successCount, failedCount, totalWords, bar, cur >>

Call(r, c) == calls' = [calls EXCEPT ![r][cur[r]] = Append(@, c)]
Enter(r, s) == stage' = [stage EXCEPT ![r][cur[r]] = s]

At(r, pos) == runPc[r] = "loop" /\ jpc[r] = pos

\* ------------------------------------------------------- TranscribeFiles
\* Variant that goes on with an empty list.
DiscoveryFailsOnErr(found) == found.err

\* TranscribeFiles' two early returns: `if err != nil` after findAudioFiles
\* and `if len(audioFiles) == 0`.
DiscoveryFails(found) == found.err \/ Len(found.files) = 0

\* A `ghospel transcribe` invocation starts (flag f is --force): it prints
\* the number of files found and enters the loop; Options has no Force field
\* and nothing looks at the output paths before the loop.
\* findAudioFiles comes first: its error, and an empty list, make
\* TranscribeFiles return an error at once.
StartRun(r, f) ==
  /\ runPc[r] = "idle"
  /\ IF r = 1 THEN TRUE
     ELSE IF concurrent THEN runPc[r - 1] # "idle" ELSE runPc[r - 1] = "done"
  /\ force' = [force EXCEPT ![r] = f]
  /\ startedAfter' = [startedAfter EXCEPT ![r] = { q \in Runs : runPc[q] = "done" }]
  /\ existedAtStart' = [existedAtStart EXCEPT ![r] = { p \in OutPaths : outFiles[p] # Absent }]
  /\ LET found == findAudioFiles(inputs, recursive) IN
     IF DiscoveryFails(found)
       THEN /\ runPc' = [runPc EXCEPT ![r] = "done"]
            /\ ret' = [ret EXCEPT ![r] = "error"]
            /\ UNCHANGED << cur, foundCount >>
       ELSE /\ runPc' = [runPc EXCEPT ![r] = "loop"]
            /\ cur' = [cur EXCEPT ![r] = 1]
            /\ foundCount' = [foundCount EXCEPT ![r] = Len(found.files)]
            /\ UNCHANGED ret
  /\ UNCHANGED << givenVars, concurrent, jpc, wavPath, needsCleanup, status,
                  stage, calls, wrote, successCount, failedCount, totalWords, bar,
                  fsVars,
                  engineArgs, modelNote >>

\* The loop takes the next file and calls transcribeFile.
Dispatch(r) ==
  /\ At(r, None)
  /\ cur[r] \in Jobs
  /\ status' = [status EXCEPT ![r][cur[r]] = "Running"]
  /\ jpc' = [jpc EXCEPT ![r] = "probe"]
  /\ UNCHANGED << givenVars, runVars, engineArgs, modelNote, cur, wavPath, needsCleanup, stage, calls,
                  wrote, successCount, failedCount, totalWords, bar, fsVars >>

\* The loop is over: print the summary and return.
Finish(r) ==
  /\ At(r, None)
  /\ cur[r] \notin Jobs
  /\ runPc' = [runPc EXCEPT ![r] = "done"]
  /\ ret' = [ret EXCEPT ![r] = ReturnValue(failedCount[r])]
  /\ UNCHANGED << givenVars, force, startedAfter, existedAtStart, foundCount,
                  concurrent, cur, jpc, wavPath,
                  needsCleanup, status, stage, calls, wrote, successCount, failedCount,
                  totalWords,
                  bar, fsVars, engineArgs, modelNote >>

\* --------------------------------------------------------- transcribeFile
\* Variant that drops the engine's error and carries on to the write.
EngineErrIgnored(err) == FALSE

\* `if err != nil { return nil, err }` after whisperClient.Transcribe.
EngineErrReturns(err) == err

\* GetAudioInfo (never returns an error) and getOutputPath.
Probe(r) ==
  /\ At(r, "probe")
  /\ Call(r, "Probe")
  /\ Goto(r, "model")
  /\ UNCHANGED << givenVars, runVars, engineArgs, modelNote, wavPath, needsCleanup, stage, wrote, fsVars >>

\* ensureModelDownloaded: catalog lookup, then os.Stat of the model path.
EnsureModel(r) ==
  /\ At(r, "model")
  /\ IF opts.Model \notin AvailableModels
       THEN /\ EndJob(r, "Failed")
            /\ UNCHANGED << calls, stage >>
       ELSE /\ Call(r, "IsCached")
            /\ IF modelFile[opts.Model].state # "absent"
                 THEN Enter(r, "ModelReady") /\ Goto(r, "prepare")
                 ELSE UNCHANGED stage /\ Goto(r, "dl_stat")
            /\ UNCHANGED << wavPath, needsCleanup >>
  /\ UNCHANGED << givenVars, runVars, engineArgs, modelNote, wrote, fsVars >>

\* Manager.Download: "Check if already downloaded".
DownloadStat(r) ==
  /\ At(r, "dl_stat")
  /\ IF modelFile[opts.Model].state # "absent"
       THEN Enter(r, "ModelReady") /\ Goto(r, "prepare")
       ELSE UNCHANGED stage /\ Goto(r, "dl_get")
  /\ UNCHANGED << givenVars, runVars, engineArgs, modelNote, wavPath, needsCleanup, calls, wrote, fsVars >>

\* Manager.Download: http.Get and the status check.
DownloadGet(r) ==
  /\ At(r, "dl_get")
  /\ Call(r, "Fetch")
  /\ modelNote' = "none"
  /\ \E ok \in BOOLEAN :
       IF ok THEN Goto(r, "dl_create") /\ UNCHANGED << wavPath, needsCleanup >>
             ELSE EndJob(r, "Failed")
  /\ UNCHANGED << givenVars, runVars, engineArgs, stage, wrote, fsVars >>

\* Manager.Download: os.Create(targetModel.Path) creates or truncates the file.
DownloadCreate(r) ==
  /\ At(r, "dl_create")
  /\ \E ok \in BOOLEAN :
       IF ok
         THEN /\ modelFile' = [modelFile EXCEPT ![opts.Model] =
                                 [state |-> "partial", fds |-> @.fds \cup {r}]]
              /\ Goto(r, "dl_copy")
              /\ UNCHANGED << wavPath, needsCleanup >>
         ELSE /\ EndJob(r, "Failed")
              /\ UNCHANGED modelFile
  /\ UNCHANGED << givenVars, runVars, engineArgs, modelNote, stage, calls, wrote, tempFiles, outFiles, engineTxt, inputAudio >>

\* Manager.Download: io.Copy; on error the path is removed.  A writer whose
\* file was unlinked meanwhile keeps writing to the unlinked inode; the file
\* at the path is complete once every writer of it has finished.
DownloadCopy(r) ==
  /\ At(r, "dl_copy")
  /\ \E ok \in BOOLEAN :
       IF ok
         THEN /\ modelFile' = [modelFile EXCEPT ![opts.Model] =
                   IF r \in @.fds
                     THEN [state |-> IF @.fds = {r} THEN "complete" ELSE "partial",
                           fds |-> @.fds \ {r}]
                     ELSE @]
              /\ modelNote' = IF modelFile'[opts.Model].state = "complete"
                                THEN "downloaded" ELSE modelNote
              /\ Enter(r, "ModelReady")
              /\ Goto(r, "prepare")
              /\ UNCHANGED << wavPath, needsCleanup >>
         ELSE /\ modelFile' = [modelFile EXCEPT ![opts.Model] = NoFile]
              /\ modelNote' = "none"
              /\ EndJob(r, "Failed")
              /\ UNCHANGED stage
  /\ UNCHANGED << givenVars, runVars, engineArgs, calls, wrote, tempFiles, outFiles, engineTxt, inputAudio >>

\* prepareAudioFile: a .wav input is used as it is; anything else goes through
\* Processor.ConvertToWav (ffmpeg -y <tempDir>/<base>_converted.wav).  A failed
\* ffmpeg run may or may not leave a partial output file behind.
PrepareAudio(r) ==
  /\ At(r, "prepare")
  /\ LET f == File(cur[r]) IN
     IF IsWav(f)
       THEN /\ wavPath' = [wavPath EXCEPT ![r] = "input"]
            /\ needsCleanup' = [needsCleanup EXCEPT ![r] = FALSE]
            /\ Enter(r, "AudioReady")
            /\ Goto(r, "engine")
            /\ UNCHANGED << calls, tempFiles, inputAudio >>
       ELSE /\ Call(r, "Convert")
            /\ \E outcome \in { "ok", "fail", "fail_partial" } :
                 /\ tempFiles' =
                      IF outcome = "fail" THEN tempFiles
                      ELSE [tempFiles EXCEPT ![TempPath(f)] =
                              [owner |-> JobId(r, cur[r]), complete |-> outcome = "ok"]]
                 /\ inputAudio' =
                      IF outcome = "fail" THEN inputAudio
                      ELSE Touched(inputAudio, TempFileAt(TempPath(f)), "overwritten")
                 /\ IF outcome = "ok"
                      THEN /\ wavPath' = [wavPath EXCEPT ![r] = TempPath(f)]
                           /\ needsCleanup' = [needsCleanup EXCEPT ![r] = TRUE]
                           /\ Enter(r, "AudioReady")
                           /\ Goto(r, "engine")
                      ELSE /\ EndJob(r, "Failed")
                           /\ UNCHANGED stage
  /\ UNCHANGED << givenVars, runVars, engineArgs, modelNote, wrote, modelFile, outFiles, engineTxt >>

\* The audio file handed to whisper-cli is there and whole.
AudioPresent(r) ==
  \/ wavPath[r] = "input" /\ inputAudio[File(cur[r])] = "intact"
  \/ /\ wavPath[r] \in TempPaths
     /\ tempFiles[wavPath[r]] # Absent
     /\ tempFiles[wavPath[r]].complete

\* Client.Transcribe's command line: -m modelPath -f audioPath --language en
\* (and fixed flags); there is no prompt argument.
WhisperArgs(audioPath, modelName) ==
  [model |-> ModelPath(opts.CacheDir, modelName), audio |-> audioPath,
   language |-> "en", prompt |-> ""]

\* whisperClient.Transcribe: run whisper-cli (which also writes
\* /tmp/ghospel_output.txt); it can only succeed on a whole audio file and a
\* whole model file.
Engine(r) ==
  /\ At(r, "engine")
  /\ Call(r, "Engine")
  /\ engineArgs' = [engineArgs EXCEPT ![r] = WhisperArgs(wavPath[r], opts.Model)]
  /\ \E ok \in BOOLEAN :
       /\ ok => AudioPresent(r) /\ modelFile[opts.Model].state = "complete"
       /\ IF ok THEN Enter(r, "Transcribed") /\ engineTxt' = JobId(r, cur[r])
                ELSE UNCHANGED << stage, engineTxt >>
       /\ IF EngineErrReturns(~ok)
            THEN /\ EndJob(r, "Failed")
                 /\ tempFiles' = Deferred(tempFiles, r)
                 /\ inputAudio' = DeferredInputs(inputAudio, r)
            ELSE /\ Goto(r, "write")
                 /\ UNCHANGED << wavPath, needsCleanup, tempFiles, inputAudio >>
  /\ UNCHANGED << givenVars, runVars, modelNote, wrote, modelFile, outFiles >>

\* formatOutput and os.WriteFile(outputPath), then the deferred Cleanup.
\* os.WriteFile opens with O_CREATE|O_TRUNC and then writes: when it fails it
\* has either touched nothing (open failed) or left a truncated file.
WriteOutput(r) ==
  /\ At(r, "write")
  /\ Call(r, "Write")
  /\ LET p == getOutputPath(File(cur[r])) IN
     \E outcome \in { "ok", "fail", "fail_truncated" } :
       /\ outFiles' =
            IF outcome = "fail" THEN outFiles
            ELSE [outFiles EXCEPT ![p] =
                    [owner |-> JobId(r, cur[r]), complete |-> outcome = "ok"]]
       /\ wrote' = [wrote EXCEPT ![r][cur[r]] = outcome # "fail"]
       /\ IF outcome = "ok"
            THEN Enter(r, "Written") /\ EndJob(r, "Succeeded")
            ELSE UNCHANGED stage /\ EndJob(r, "Failed")
  /\ tempFiles' = Deferred(tempFiles, r)
  /\ inputAudio' =
       DeferredInputs(IF wrote'[r][cur[r]]
                        THEN Touched(inputAudio, OutFileAt(getOutputPath(File(cur[r]))),
                                     "overwritten")
                        ELSE inputAudio, r)
  /\ UNCHANGED << givenVars, runVars, engineArgs, modelNote, modelFile, engineTxt >>

\* ------------------------------------------------------------------ Next
Next ==
  \/ \E r \in Runs, f \in BOOLEAN : StartRun(r, f)
  \/ \E r \in Runs : Dispatch(r)
  \/ \E r \in Runs : Finish(r)
  \/ \E r \in Runs : Probe(r)
  \/ \E r \in Runs : EnsureModel(r)
  \/ \E r \in Runs : DownloadStat(r)
  \/ \E r \in Runs : DownloadGet(r)
  \/ \E r \in Runs : DownloadCreate(r)
  \/ \E r \in Runs : DownloadCopy(r)
  \/ \E r \in Runs : PrepareAudio(r)
  \/ \E r \in Runs : Engine(r)
  \/ \E r \in Runs : WriteOutput(r)

Spec == Init /\ [][Next]_vars

SpecConc == InitConc /\ [][Next]_vars

\* Invocations one after the other over a batch that holds the audio file
\* lying in the temp directory.
InitTemp ==
  /\ opts \in DefaultOptions
  /\ inputs \in TempBatches
  /\ recursive = FALSE
  /\ pcm16k = TRUE
  /\ audioFiles = findAudioFiles(inputs, recursive).files
  /\ concurrent = FALSE
  /\ RunsIdle
  /\ FormatterIdle
  /\ ParserIdle
  /\ ConfigIdle

SpecTemp == InitTemp /\ [][Next]_vars

\* A single invocation.
NextOne ==
  \/ \E f \in BOOLEAN : StartRun(1, f)
  \/ Dispatch(1)
  \/ Finish(1)
  \/ Probe(1)
  \/ EnsureModel(1)
  \/ DownloadStat(1)
  \/ DownloadGet(1)
  \/ DownloadCreate(1)
  \/ DownloadCopy(1)
  \/ PrepareAudio(1)
  \/ Engine(1)
  \/ WriteOutput(1)

SpecDisc == InitDisc /\ [][NextOne]_vars

\* ------------------------------------------------------------ cache clear
\* `ghospel cache clear`: cache.NewManager("").Clear(force).  Without --force
\* it asks first (yes is the answer); it removes ~/.whisper, whatever cache
\* directory the transcribe runs use.
ClearCache(yes) ==
  /\ yes
  /\ modelFile' = IF opts.CacheDir = DefaultCacheDir
                    THEN [m \in AvailableModels |-> NoFile] ELSE modelFile
  /\ modelNote' = "cleared"
  /\ UNCHANGED << givenVars, runVars, cur, jpc, wavPath, needsCleanup, status, stage,
                  calls, wrote, successCount, failedCount, totalWords, bar, tempFiles,
                  outFiles, engineTxt, inputAudio, engineArgs >>

NextWide ==
  \/ Next
  \/ \E yes \in BOOLEAN : ClearCache(yes)

SpecWide == InitWide /\ [][NextWide]_vars

\* ------------------------------------------------------------ cache clean
\* filepath.Dir of a path given as its components.
PathDir(path) == SubSeq(path, 1, Len(path) - 1)

\* Manager.Clean: "Don't remove model files during clean": the files it
\* passes over are those directly in <cacheDir>/models.
CleanSkips(cacheDir, path) == PathDir(path) = << cacheDir, "models" >>

\* `ghospel cache clean --older-than d`: cache.NewManager("").Clean(d) walks
\* ~/.whisper and removes every file last modified before the cutoff that it
\* does not pass over.  old: the model files were last modified before the
\* cutoff.
CleanCache(old) ==
  /\ modelFile' =
       IF opts.CacheDir = DefaultCacheDir
         THEN [m \in AvailableModels |->
                 IF /\ modelFile[m].state # "absent"
                    /\ old
                    /\ ~CleanSkips(DefaultCacheDir, ModelPath(DefaultCacheDir, m))
                   THEN NoFile ELSE modelFile[m]]
         ELSE modelFile
  /\ modelNote' = IF modelFile' # modelFile THEN "cleaned" ELSE modelNote
  /\ UNCHANGED << givenVars, runVars, cur, jpc, wavPath, needsCleanup, status, stage,
                  calls, wrote, successCount, failedCount, totalWords, bar, tempFiles,
                  outFiles, engineTxt, inputAudio, engineArgs >>

NextCache ==
  \/ Next
  \/ \E yes \in BOOLEAN : ClearCache(yes)
  \/ \E old \in BOOLEAN : CleanCache(old)

\* The invocations of SpecWide with `cache clear` and `cache clean` in
\* between.
SpecCache == InitWide /\ [][NextCache]_vars

\* ========================================================= TextFormatter
\* transcription.TextFormatter (formatter.go).  A Go string is a sequence of
\* one-character strings.
targetWordCount == 50
maxSentencesPerChunk == 4
minWordsForSignificantSentence == 4

\* Bounds of the texts tried: every string of up to MaxLen characters, and
\* runs of up to MaxRun sentences of one kind followed by up to MaxRun of
\* another.
MaxLen == 3
MaxRun == 4

Alphabet == { "a", "B", ".", "!", ",", " ", "\n" }

\* unicode.IsSpace, [A-Z] and [.!?] over the characters in use.
IsSpace(c) == c \in { " ", "\n", "\t" }
IsUpper(c) == c = "B"
IsTerminal(c) == c \in { ".", "!", "?" }

Min(S) == CHOOSE x \in S : \A y \in S : x <= y
Max(S) == CHOOSE x \in S : \A y \in S : x >= y

\* The concatenation of ss[lo], ..., ss[hi].
RECURSIVE FlattenRange(_, _, _)
FlattenRange(ss, lo, hi) ==
  IF lo > hi THEN << >>
  ELSE IF lo = hi THEN ss[lo]
  ELSE LET mid == (lo + hi) \div 2
       IN  FlattenRange(ss, lo, mid) \o FlattenRange(ss, mid + 1, hi)

Flatten(ss) == FlattenRange(ss, 1, Len(ss))

\* strings.TrimSpace
TrimSpace(s) ==
  LET I == { i \in 1..Len(s) : ~IsSpace(s[i]) }
  IN  IF I = {} THEN << >> ELSE SubSeq(s, Min(I), Max(I))

\* regexp `\s+` replaced by " "
CollapseSpace(s) ==
  Flatten([ i \in 1..Len(s) |->
              IF IsSpace(s[i])
                THEN IF i > 1 /\ IsSpace(s[i - 1]) THEN << >> ELSE << " " >>
                ELSE << s[i] >> ])

\* strings.Split(s, sep) for a one-character separator, from index `from` on.
RECURSIVE SplitFrom(_, _, _)
SplitFrom(s, sep, from) ==
  LET I == { i \in from..Len(s) : s[i] = sep }
  IN  IF I = {} THEN << SubSeq(s, from, Len(s)) >>
      ELSE << SubSeq(s, from, Min(I) - 1) >> \o SplitFrom(s, sep, Min(I) + 1)

Split(s, sep) == SplitFrom(s, sep, 1)

\* strings.Join(ss, sep)
Join(ss, sep) ==
  Flatten([ k \in 1..Len(ss) |-> IF k = 1 THEN ss[k] ELSE sep \o ss[k] ])

\* strings.Fields
Fields(s) ==
  LET t == TrimSpace(CollapseSpace(s))
  IN  IF t = << >> THEN << >> ELSE Split(t, " ")

\* strings.ReplaceAll(s, " " + c, c)
DropSpaceBefore(s, c) ==
  Flatten([ i \in 1..Len(s) |->
              IF s[i] = " " /\ i < Len(s) /\ s[i + 1] = c THEN << >> ELSE << s[i] >> ])

\* regexp `[c]{2,}` replaced by c
CollapseRun(s, c) ==
  Flatten([ i \in 1..Len(s) |->
              IF s[i] = c /\ i > 1 /\ s[i - 1] = c THEN << >> ELSE << s[i] >> ])

\* TextFormatter.cleanText
cleanText(t) ==
  LET t1 == CollapseSpace(t)
      t2 == DropSpaceBefore(t1, ",")
      t3 == DropSpaceBefore(t2, ".")
      t4 == DropSpaceBefore(t3, "!")
      t5 == DropSpaceBefore(t4, "?")
      t6 == CollapseRun(t5, ".")
      t7 == CollapseRun(t6, "!")
      t8 == CollapseRun(t7, "?")
  IN  TrimSpace(t8)

\* TextFormatter.countWords
countWords(sentence) ==
  IF TrimSpace(sentence) = << >> THEN 0 ELSE Len(Fields(sentence))

\* regexp `([.!?]+)\s+([A-Z])` replaced by "$1\n$2", on a text whose
\* whitespace runs are single spaces already.
MarkSentences(s) ==
  [ i \in 1..Len(s) |->
      IF /\ IsSpace(s[i]) /\ i > 1 /\ i < Len(s)
         /\ IsTerminal(s[i - 1]) /\ IsUpper(s[i + 1])
        THEN "\n" ELSE s[i] ]

\* TextFormatter.splitIntoSentences
splitIntoSentences(t) ==
  LET marked == MarkSentences(CollapseSpace(TrimSpace(t)))
      rawSentences == Split(marked, "\n")
      trimmed == [ k \in 1..Len(rawSentences) |-> TrimSpace(rawSentences[k]) ]
      found == SelectSeq(trimmed, LAMBDA x : x # << >>)
  IN  IF Len(found) <= 1 /\ Len(rawSentences) = 1 THEN << marked >> ELSE found

\* `wordsInSentence >= f.minWordsForSignificantSentence`
Significant(sentence) == countWords(sentence) >= minWordsForSignificantSentence

\* Format's loop "Build a tentative chunk": the index (from 1) of the last
\* sentence of the tentative chunk that starts at sentence i.
RECURSIVE TentativeEnd(_, _, _)
TentativeEnd(S, i, wc) ==
  LET wc2 == wc + countWords(S[i])
  IN  IF wc2 >= targetWordCount \/ i = Len(S) THEN i ELSE TentativeEnd(S, i + 1, wc2)

\* currentChunkSignificantSentenceCount of the chunk S[from..to].
SignificantCount(S, from, to) ==
  Cardinality({ i \in from..to : Significant(S[i]) })

\* Format's loop over currentChunkSentences: where it breaks.
RECURSIVE TruncatedEnd(_, _, _, _)
TruncatedEnd(S, i, to, sig) ==
  LET sig2 == IF Significant(S[i]) THEN sig + 1 ELSE sig
  IN  IF (Significant(S[i]) /\ sig2 >= maxSentencesPerChunk) \/ i = to THEN i
      ELSE TruncatedEnd(S, i + 1, to, sig2)

\* Variants of the test: never truncating, and truncating at the maximum
\* itself.
ExceedsNever(n) == FALSE
ExceedsOrReaches(n) == n >= maxSentencesPerChunk

\* `currentChunkSignificantSentenceCount > f.maxSentencesPerChunk`
ExceedsMax(n) == n > maxSentencesPerChunk

\* The index of the last sentence of sentencesForFinalChunk, for the chunk
\* that starts at sentence i.
FinalEnd(S, i) ==
  LET to == TentativeEnd(S, i, 0)
  IN  IF ExceedsMax(SignificantCount(S, i, to)) THEN TruncatedEnd(S, i, to, 0) ELSE to

\* Variant that joins the sentences of a chunk without a space.
ChunkTextGlued(S, from, to) == cleanText(Join(SubSeq(S, from, to), << >>))

\* `chunkText := strings.Join(sentencesForFinalChunk, " ")`, then cleanText.
ChunkText(S, from, to) == cleanText(Join(SubSeq(S, from, to), << " " >>))

\* Variant that writes no separator between the chunks.
AddChunkUnseparated(builder, chunkText) == builder \o chunkText

\* "Add the chunk to final text": a blank line first unless it is the first.
AddChunk(builder, chunkText) ==
  (IF Len(builder) > 0 THEN builder \o << "\n", "\n" >> ELSE builder) \o chunkText

\* Variant that leaves the index where it is.
AdvanceStuck(p, n) == p

\* `processedSentenceIndex += len(sentencesForFinalChunk)`
Advance(p, n) == p + n

\* Format's outer loop, from processedSentenceIndex = p on; it is left at
\* once ("Safety break") when the chunk is empty.
RECURSIVE FormatLoop(_, _, _)
FormatLoop(S, p, builder) ==
  IF p < Len(S)
    THEN LET to == FinalEnd(S, p + 1)
         IN  IF to - p > 0
               THEN FormatLoop(S, Advance(p, to - p),
                               AddChunk(builder, ChunkText(S, p + 1, to)))
               ELSE builder
    ELSE builder

\* TextFormatter.Format
Format(t) ==
  IF TrimSpace(t) = << >> THEN << >>
  ELSE LET S == splitIntoSentences(t)
       IN  IF Len(S) = 0 THEN t ELSE TrimSpace(FormatLoop(S, 0, << >>))

\* The paragraphs of a formatted text: what the blank lines separate.
Paragraphs(out) ==
  IF out = << >> THEN << >>
  ELSE SelectSeq(Split(out, "\n"), LAMBDA x : x # << >>)

\* ---------------------------------------------------------- texts tried
RECURSIVE StringsUpTo(_)
StringsUpTo(n) ==
  IF n = 0 THEN { << >> }
  ELSE LET S == StringsUpTo(n - 1)
       IN  S \cup { Append(s, c) : s \in { t \in S : Len(t) = n - 1 }, c \in Alphabet }

\* A sentence of n words: a capitalised word, n - 1 more words, a full stop.
Sentence(n) ==
  [ i \in 1..(2 * n) |-> IF i = 1 THEN "B" ELSE IF i = 2 * n THEN "."
                          ELSE IF i % 2 = 0 THEN " " ELSE "a" ]

\* A significant sentence, a short one, one whose full stop stands apart,
\* and one that nearly fills a paragraph.
SentenceKinds ==
  { Sentence(minWordsForSignificantSentence + 1),
    Sentence(2),
    << "B", " ", "a", " ", "a", " ", "." >>,
    Sentence(targetWordCount - 4) }

Repeat(s, n) == Join([ k \in 1..n |-> s ], << " " >>)

LongTexts ==
  { TrimSpace(Repeat(s1, n1) \o << " " >> \o Repeat(s2, n2)) :
      s1 \in SentenceKinds, s2 \in SentenceKinds, n1 \in 1..MaxRun, n2 \in 0..MaxRun }

Texts == StringsUpTo(MaxLen) \cup LongTexts

\* The pipeline at rest: no input, no run.
PipelineIdle ==
  /\ opts = [Model |-> "base", Workers |-> 1, OutputDir |-> "",
             CacheDir |-> DefaultCacheDir, Language |-> "auto", Prompt |-> ""]
  /\ inputs = << >>
  /\ recursive = FALSE
  /\ pcm16k = TRUE
  /\ audioFiles = << >>
  /\ concurrent = FALSE
  /\ RunsIdle
  /\ ConfigIdle

InitFmt ==
  /\ PipelineIdle
  /\ ParserIdle
  /\ text \in Texts
  /\ fpc = "start"
  /\ sentences = << >>
  /\ processedSentenceIndex = 0
  /\ finalFormattedText = << >>
  /\ result = << >>
  /\ again = << >>

\* Format up to its loop: the blank text, the split, the empty split.
FormatStart ==
  /\ fpc = "start"
  /\ IF TrimSpace(text) = << >>
       THEN fpc' = "done" /\ result' = << >> /\ UNCHANGED sentences
       ELSE /\ sentences' = splitIntoSentences(text)
            /\ IF Len(sentences') = 0
                 THEN fpc' = "done" /\ result' = text
                 ELSE fpc' = "loop" /\ UNCHANGED result
  /\ UNCHANGED << text, processedSentenceIndex, finalFormattedText, again,
                  pipeVars, parseVars >>

\* One iteration of `for processedSentenceIndex < len(sentences)`; an empty
\* chunk ends the loop and Format returns what it has.
FormatChunk ==
  /\ fpc = "loop"
  /\ processedSentenceIndex < Len(sentences)
  /\ LET p == processedSentenceIndex
         to == FinalEnd(sentences, p + 1)
     IN  IF to - p > 0
           THEN /\ finalFormattedText' =
                     AddChunk(finalFormattedText, ChunkText(sentences, p + 1, to))
                /\ processedSentenceIndex' = Advance(p, to - p)
                /\ UNCHANGED << fpc, result >>
           ELSE /\ result' = TrimSpace(finalFormattedText)
                /\ fpc' = "done"
                /\ UNCHANGED << finalFormattedText, processedSentenceIndex >>
  /\ UNCHANGED << text, sentences, again, pipeVars, parseVars >>

\* `return strings.TrimSpace(finalFormattedText.String())`
FormatReturn ==
  /\ fpc = "loop"
  /\ processedSentenceIndex >= Len(sentences)
  /\ result' = TrimSpace(finalFormattedText)
  /\ fpc' = "done"
  /\ UNCHANGED << text, sentences, processedSentenceIndex, finalFormattedText, again,
                  pipeVars, parseVars >>

\* Format called again, on the paragraphs of its result joined by spaces.
FormatAgain ==
  /\ fpc = "done"
  /\ again' = Format(Join(Paragraphs(result), << " " >>))
  /\ fpc' = "again"
  /\ UNCHANGED << text, sentences, processedSentenceIndex, finalFormattedText, result,
                  pipeVars, parseVars >>

NextFmt == FormatStart \/ FormatChunk \/ FormatReturn \/ FormatAgain

SpecFmt == InitFmt /\ [][NextFmt]_vars

\* A call of Format, or the second call, has a step to take.
FormatPending == fpc \in { "start", "loop", "done" }

\* Format runs on: a call that can take a step takes it.  This is weak
\* fairness of NextFmt, WF_vars(NextFmt), written out with FormatPending for
\* ENABLED <<NextFmt>>_vars (every action of NextFmt changes fpc, the index
\* or the builder).
SpecFmtRuns ==
  InitFmt /\ [][NextFmt]_vars /\ ([]<>~FormatPending \/ []<><<NextFmt>>_vars)

\* ===================================================== Client.Transcribe
\* whisper.Client.Transcribe (config.go): run whisper-cli, then take the
\* transcript out of what it printed.
\*
\* What whisper-cli prints is a list of lines: log lines (model loading,
\* timings), blank lines, and one line per segment,
\* "[hh:mm:ss.mmm --> hh:mm:ss.mmm]   text".  A line is [kind, hour, text];
\* hour is the hour of the segment's start.
MaxLines == 3

LogLine == [kind |-> "log", hour |-> 0, text |-> << >>]
BlankLine == [kind |-> "blank", hour |-> 0, text |-> << >>]
Segment(h, t) == [kind |-> "segment", hour |-> h, text |-> t]

\* Segment texts: none, a word, words with a bracketed note.
SegmentTexts == { << >>, << "w" >>, << "v", " ", "[", "w", "]" >> }

LineChoices ==
  { LogLine, BlankLine } \cup { Segment(h, t) : h \in { 0, 1 }, t \in SegmentTexts }

RECURSIVE LinesUpTo(_)
LinesUpTo(n) ==
  IF n = 0 THEN { << >> }
  ELSE LET S == LinesUpTo(n - 1)
       IN  S \cup { Append(s, l) : s \in { t \in S : Len(t) = n - 1 }, l \in LineChoices }

\* Segments come in the order of their start times, the first one within
\* the first hour.
Chronological(ls) ==
  \A k \in 1..Len(ls) :
    (ls[k].kind = "segment" /\ ls[k].hour > 0) =>
      \E i \in 1..(k - 1) : ls[i].kind = "segment" /\ ls[i].hour = 0

EngineOutputs == { ls \in LinesUpTo(MaxLines) : Chronological(ls) }

\* The characters of a line as printed.  The timestamp marker is three
\* pieces: its opening up to the hour ("[00:" or "[01:"), the rest up to the
\* bracket, and the closing bracket.
RenderLine(l) ==
  CASE l.kind = "log" -> << "l", "o", "g", ":", " ", "l", "o", "g" >>
    [] l.kind = "blank" -> << >>
    [] OTHER -> << IF l.hour = 0 THEN "[00:" ELSE "[01:", "00 --> 05", "]", " ", " " >> \o l.text

\* The combined output: every line followed by a newline.
Render(ls) == Flatten([ k \in 1..Len(ls) |-> RenderLine(ls[k]) \o << "\n" >> ])

\* strings.Contains(line, piece)
Contains(line, piece) == \E i \in 1..Len(line) : line[i] = piece

\* strings.SplitN(line, "]", 2)[1], for a line that contains "]".
AfterBracket(line) ==
  LET i == Min({ k \in 1..Len(line) : line[k] = "]" })
  IN  SubSeq(line, i + 1, Len(line))

\* Variant that looks for the marker on every line.
InTranscriptionByLine(line, inT) == Contains(line, "[00:")

\* `strings.Contains(line, "[00:") || inTranscription`
InTranscriptionNow(line, inT) == Contains(line, "[00:") \/ inT

\* What the loop body writes to the builder for one (trimmed) line.
LineText(line) ==
  IF Contains(line, "]")
    THEN LET t == TrimSpace(AfterBracket(line))
         IN  IF t # << >> THEN t \o << " " >> ELSE << >>
    ELSE << >>

InitParse ==
  /\ PipelineIdle
  /\ FormatterIdle
  /\ engineOut \in EngineOutputs
  /\ engineFails \in BOOLEAN
  /\ ppc = "run"
  /\ output = << >>
  /\ lineNo = 0
  /\ inTranscription = FALSE
  /\ transcription = << >>
  /\ transcribed = NotReturned

\* cmd.CombinedOutput(): an error of the command is returned as it is.
RunEngine ==
  /\ ppc = "run"
  /\ IF engineFails
       THEN /\ ppc' = "done"
            /\ transcribed' = [result |-> << >>, err |-> "error"]
            /\ UNCHANGED output
       ELSE /\ ppc' = "lines"
            /\ output' = Render(engineOut)
            /\ UNCHANGED transcribed
  /\ UNCHANGED << engineOut, engineFails, lineNo, inTranscription, transcription,
                  pipeVars, fmtVars >>

\* One iteration of `for _, line := range lines`.
ParseLine ==
  /\ ppc = "lines"
  /\ lineNo < Len(Split(output, "\n"))
  /\ LET line == TrimSpace(Split(output, "\n")[lineNo + 1]) IN
     IF InTranscriptionNow(line, inTranscription)
       THEN /\ inTranscription' = TRUE
            /\ transcription' = transcription \o LineText(line)
       ELSE UNCHANGED << inTranscription, transcription >>
  /\ lineNo' = lineNo + 1
  /\ UNCHANGED << engineOut, engineFails, ppc, output, transcribed, pipeVars, fmtVars >>

\* After the loop: the trimmed builder, or the whole output when that is
\* empty; never an error.
ParseReturn ==
  /\ ppc = "lines"
  /\ lineNo >= Len(Split(output, "\n"))
  /\ transcribed' =
       [result |-> IF TrimSpace(transcription) = << >> THEN output
                   ELSE TrimSpace(transcription),
        err |-> "nil"]
  /\ ppc' = "done"
  /\ UNCHANGED << engineOut, engineFails, output, lineNo, inTranscription,
                  transcription, pipeVars, fmtVars >>

NextParse == RunEngine \/ ParseLine \/ ParseReturn

SpecParse == InitParse /\ [][NextParse]_vars

\* ======================================================== ghospel config
\* `ghospel config set <key> <value>`: config.Set loads the file (creating
\* it when missing), checks and stores the value, and saves.
ConfigSet(key, value) ==
  /\ IF SetFails(key, value)
       THEN /\ configFile' = Loaded(configFile)
            /\ cfgCall' = [op |-> "set", key |-> key, value |-> value, err |-> TRUE, out |-> ""]
            /\ UNCHANGED lastSet
       ELSE /\ configFile' = Marshal([Load(configFile) EXCEPT ![key] = SetField(key, value)])
            /\ cfgCall' = [op |-> "set", key |-> key, value |-> value, err |-> FALSE, out |-> ""]
            /\ lastSet' = [lastSet EXCEPT ![key] = value]
  /\ UNCHANGED << opts, audioFiles, inputs, recursive, pcm16k, runPc, force, ret, cur, jpc,
                  wavPath, needsCleanup, status, stage, calls, wrote, successCount,
                  failedCount, totalWords, bar, startedAfter, existedAtStart, foundCount,
                  concurrent, fsVars, engineArgs, modelNote, fmtVars, parseVars, cliRun >>

\* `ghospel config get <key>`: config.Load, then config.Get prints the field.
ConfigGet(key) ==
  /\ configFile' = Loaded(configFile)
  /\ cfgCall' =
       IF key \in ConfigKeys
         THEN [op |-> "get", key |-> key, value |-> "", err |-> FALSE,
               out |-> Printed(Load(configFile), key)]
         ELSE [op |-> "get", key |-> key, value |-> "", err |-> TRUE, out |-> ""]
  /\ UNCHANGED << lastSet, opts, audioFiles, inputs, recursive, pcm16k, runPc, force, ret,
                  cur, jpc, wavPath, needsCleanup, status, stage, calls, wrote,
                  successCount, failedCount, totalWords, bar, startedAfter,
                  existedAtStart, foundCount, concurrent, fsVars, engineArgs, modelNote,
                  fmtVars, parseVars, cliRun >>

\* `ghospel config reset`: config.Reset saves the defaults.
ConfigReset ==
  /\ configFile' = Marshal(DefaultConfig)
  /\ cfgCall' = [op |-> "reset", key |-> "", value |-> "", err |-> FALSE, out |-> ""]
  /\ lastSet' = [k \in ConfigKeys |-> Unset]
  /\ UNCHANGED << opts, audioFiles, inputs, recursive, pcm16k, runPc, force, ret, cur, jpc,
                  wavPath, needsCleanup, status, stage, calls, wrote, successCount,
                  failedCount, totalWords, bar, startedAfter, existedAtStart, foundCount,
                  concurrent, fsVars, engineArgs, modelNote, fmtVars, parseVars, cliRun >>

InitConfig ==
  /\ PipelineIdle
  /\ FormatterIdle
  /\ ParserIdle

NextConfig ==
  \/ \E key \in KeysTried, value \in ValuesTried : ConfigSet(key, value)
  \/ \E key \in KeysTried : ConfigGet(key)
  \/ ConfigReset

SpecConfig == InitConfig /\ [][NextConfig]_vars

\* ===================================================== transcribe options
\* The transcribe action up to the options it hands to the service: load
\* the configuration (creating the file when missing), read the flags,
\* apply the config defaults.
TranscribeOptions(flags) ==
  /\ configFile' = Loaded(configFile)
  /\ cliRun' = [ran |-> TRUE, flags |-> flags, cfg |-> Load(configFile),
                opts |-> ResolveOptions(flags, Load(configFile))]
  /\ UNCHANGED << cfgCall, lastSet, opts, audioFiles, inputs, recursive, pcm16k, runPc,
                  force, ret, cur, jpc, wavPath, needsCleanup, status, stage, calls, wrote,
                  successCount, failedCount, totalWords, bar, startedAfter,
                  existedAtStart, foundCount, concurrent, fsVars, engineArgs, modelNote,
                  fmtVars, parseVars >>

\* The keys whose configuration the transcribe action reads.
CliKeys == { "model", "workers", "cache_dir" }

NextCli ==
  \/ \E key \in CliKeys, value \in ValuesTried : ConfigSet(key, value)
  \/ \E flags \in FlagsTried : TranscribeOptions(flags)

SpecCli == InitConfig /\ [][NextCli]_vars

\* ================================================================ claims
Terminal == { "Succeeded", "Failed", "Skipped" }

Running(r) == { j \in Jobs : status[r][j] = "Running" }

Count(seq, c) == Cardinality({ k \in 1..Len(seq) : seq[k] = c })

Last(seq) == seq[Len(seq)]

\* In every state: at most opts.Workers jobs Running, transcribeFile entered
\* at most once per job, all jobs terminal once the run has returned.
C1_StateOk ==
  \A r \in Runs :
    /\ Cardinality(Running(r)) <= opts.Workers
    /\ \A j \in Jobs :
         /\ Count(calls[r][j], "Probe") <= 1
         /\ status[r][j] \in Terminal => Count(calls[r][j], "Probe") = 1
    /\ runPc[r] = "done" => \A j \in Jobs : status[r][j] \in Terminal

\* In every step: a terminal status stays, a Running job stays Running or
\* becomes terminal.
C1_StepOk ==
  \A r \in Runs : \A j \in Jobs :
    /\ status[r][j] \in Terminal => status'[r][j] = status[r][j]
    /\ status[r][j] = "Running" => status'[r][j] \in Terminal \cup { "Running" }

\* C1: in a batch of M jobs run with N configured workers (M > N), never more
\* than N jobs are Running, a job that reached a terminal status keeps it for
\* ever, transcribeFile is entered at most once per job (exactly once for a
\* job that is terminal), and when the run returns every job is terminal.
C1_ExactlyOnce == [] C1_StateOk /\ [][C1_StepOk]_vars

\* C1 witness: a returned run of more jobs than workers, one job Succeeded
\* and one Failed.
C1_Witness ==
  /\ runPc[1] = "done"
  /\ NJobs > opts.Workers
  /\ \E j, k \in Jobs : status[1][j] = "Succeeded" /\ status[1][k] = "Failed"

\* In every state: a run that has returned has returned nil, with every job
\* terminal and taken through transcribeFile.
C3_StateOk ==
  \A r \in Runs :
    /\ ret[r] # None => ret[r] = "nil"
    /\ runPc[r] = "done" =>
         /\ ret[r] = "nil"
         /\ \A j \in Jobs : status[r][j] \in Terminal /\ calls[r][j] # << >>
         /\ successCount[r] + failedCount[r] = NJobs

\* In every step: failing one job changes nothing of any other job.
C3_StepOk ==
  \A r \in Runs : \A j \in Jobs :
    (status[r][j] # "Failed" /\ status'[r][j] = "Failed") =>
      \A q \in Runs : \A k \in Jobs :
        << q, k >> # << r, j >> =>
          /\ status'[q][k] = status[q][k]
          /\ stage'[q][k] = stage[q][k]
          /\ calls'[q][k] = calls[q][k]

\* C3: a job's error touches no other job: the step that fails a job leaves
\* every other job's status, stage and calls alone, every job of the list is
\* still taken through transcribeFile, and TranscribeFiles returns nil once
\* all jobs are terminal, however many failed.
C3_FailureIsolated == [] C3_StateOk /\ [][C3_StepOk]_vars

\* C3 witness: a returned run in which a job Failed and a later job Succeeded.
C3_Witness ==
  /\ runPc[1] = "done"
  /\ ret[1] = "nil"
  /\ \E j, k \in Jobs : j < k /\ status[1][j] = "Failed" /\ status[1][k] = "Succeeded"

\* The one-way stage transitions.
StageOrder ==
  { << None, "ModelReady" >>, << "ModelReady", "AudioReady" >>,
    << "AudioReady", "Transcribed" >>, << "Transcribed", "Written" >> }

\* The stage a job must be in when it calls collaborator c.
CallNeeds(c) ==
  CASE c = "Convert" -> "ModelReady"
    [] c = "Engine" -> "AudioReady"
    [] c = "Write" -> "Transcribed"
    [] OTHER -> None

\* In every step: stages advance along StageOrder, calls come from the right
\* stage and once, a failed call fails the job, a Failed job is frozen.
C5_StepOk ==
  \A r \in Runs : \A j \in Jobs :
    /\ stage'[r][j] # stage[r][j] => << stage[r][j], stage'[r][j] >> \in StageOrder
    /\ status[r][j] = "Failed" => calls'[r][j] = calls[r][j] /\ stage'[r][j] = stage[r][j]
    /\ calls'[r][j] # calls[r][j] =>
         /\ Len(calls'[r][j]) = Len(calls[r][j]) + 1
         /\ LET c == Last(calls'[r][j]) IN
            c \in { "Convert", "Engine", "Write" } =>
              /\ stage[r][j] = CallNeeds(c)
              /\ Count(calls[r][j], c) = 0
              /\ stage'[r][j] = stage[r][j] => status'[r][j] = "Failed"

\* C5: within a job the stages are entered one after the other in the order
\* ModelReady, AudioReady, Transcribed, Written; the converter is called only
\* from ModelReady, the engine only from AudioReady, the write only from
\* Transcribed; a call of converter, engine or write that does not advance
\* the stage fails the job in that very step; a Failed job makes no further
\* call and changes stage no more.
C5_StagesInOrder == [][C5_StepOk]_vars

\* C5 witness: one job went through all four stages and another one failed
\* in the engine, after conversion, and made no further call.
C5_Witness ==
  \E j, k \in Jobs :
    /\ stage[1][j] = "Written"
    /\ calls[1][j] = << "Probe", "IsCached", "Convert", "Engine", "Write" >>
    /\ status[1][k] = "Failed"
    /\ stage[1][k] = "AudioReady"
    /\ Last(calls[1][k]) = "Engine"

\* A download transfer is in flight for run r: http.Get has answered and
\* io.Copy has not returned yet.
InFlight(r) == runPc[r] = "loop" /\ jpc[r] \in { "dl_create", "dl_copy" }

\* C2: for the model requested, at most one download transfer is in flight
\* at any instant across all concurrent callers.
C2_SingleFlight == Cardinality({ r \in Runs : InFlight(r) }) <= 1

\* C4: a job has written to its output path if and only if its status is
\* Succeeded.
C4_WrittenIffSucceeded ==
  \A r \in Runs : \A j \in Jobs :
    wrote[r][j] <=> status[r][j] = "Succeeded"

\* C6: once a job for which the converter was called is terminal, no temp
\* file created for it remains.
C6_NoTempLeft ==
  \A r \in Runs : \A j \in Jobs :
    (status[r][j] \in Terminal /\ Count(calls[r][j], "Convert") > 0) =>
      \A p \in TempPaths : tempFiles[p].owner # JobId(r, j)

\* In every step of run r: a temp file of the batch that changes belongs to
\* the job taking the step, and so does the temp file its engine reads.
C7_StepOk ==
  \A r \in Runs :
    jpc'[r] # jpc[r] =>
      /\ \A p \in TempPaths :
           (tempFiles'[p] # tempFiles[p] /\ tempFiles[p].owner[1] = r) =>
             tempFiles[p].owner = JobId(r, cur[r])
      /\ (jpc[r] = "engine" /\ wavPath[r] \in TempPaths /\ tempFiles[wavPath[r]].owner[1] = r) =>
           tempFiles[wavPath[r]].owner = JobId(r, cur[r])

\* C7: a temp file made for one job is never written or deleted by another
\* job of the same batch, and the engine of a job reads no other job's temp
\* file.
C7_TempOwnedByJob == [][C7_StepOk]_vars

\* The expected output of job j existed when run r started.
OutputExisted(r, j) == getOutputPath(File(j)) \in existedAtStart[r]

\* C8: a file whose expected output exists when the run starts is Skipped
\* unless --force was given, a Skipped file sees no collaborator call and no
\* write, and every other file is processed.
C8_SkipIffOutputExists ==
  \A r \in Runs : \A j \in Jobs :
    /\ (runPc[r] # "idle" /\ OutputExisted(r, j) /\ ~force[r]) =>
         /\ status[r][j] \in { "Pending", "Skipped" }
         /\ calls[r][j] = << >>
         /\ ~wrote[r][j]
    /\ status[r][j] = "Skipped" => OutputExisted(r, j) /\ ~force[r]

\* The jobs a resume filter would count as already done in run r.
AlreadyDone(r) == { j \in Jobs : OutputExisted(r, j) /\ ~force[r] }

\* C9: the count announced as to be processed is the number of discovered
\* files minus those already done, so it is zero, and no job is dispatched,
\* when every expected output exists and --force was not given.
C9_CountsAddUp ==
  \A r \in Runs :
    runPc[r] # "idle" =>
      /\ NJobs = Cardinality(AlreadyDone(r)) + foundCount[r]
      /\ AlreadyDone(r) = Jobs =>
           foundCount[r] = 0 /\ \A j \in Jobs : status[r][j] \in { "Pending", "Skipped" }

\* C10: a run without --force that starts after a first run over the same
\* inputs has returned does nothing for the files whose job Succeeded in
\* the first run, and takes exactly the other files through transcribeFile.
C10_RestartSafe ==
  (1 \in startedAfter[2] /\ ~force[2]) =>
    /\ \A j \in Jobs :
         status[1][j] = "Succeeded" => calls[2][j] = << >> /\ ~wrote[2][j]
    /\ runPc[2] = "done" =>
         \A j \in Jobs : status[1][j] # "Succeeded" => calls[2][j] # << >>

\* Some input path cannot be accessed.
Unreadable == \E i \in 1..Len(inputs) : ~Exists(inputs[i])

\* Nothing was done for any job and no file was made.
Untouched(r) ==
  /\ \A j \in Jobs : status[r][j] = "Pending" /\ calls[r][j] = << >>
  /\ \A m \in AvailableModels : modelFile[m] = NoFile
  /\ \A p \in TempPaths : tempFiles[p] = Absent
  /\ \A p \in OutPaths : outFiles[p] = Absent

\* C11 as stated: TranscribeFiles returns an error, having processed no job,
\* when an input path is unreadable, and in no other situation.
C11_AbortsOnlyOnUnreadable ==
  \A r \in Runs :
    runPc[r] = "done" =>
      /\ ret[r] = "error" <=> Unreadable
      /\ ret[r] = "error" => Untouched(r)

\* C11 amended: TranscribeFiles returns an error, having processed no job,
\* when an input path is unreadable or when discovery finds no audio file,
\* and in no other situation, whatever jobs fail.
C11_AbortsOnlyInDiscovery ==
  \A r \in Runs :
    runPc[r] = "done" =>
      /\ ret[r] = "error" <=> (Unreadable \/ audioFiles = << >>)
      /\ ret[r] = "error" => Untouched(r)

\* C11 witness: a run over readable inputs without any audio file has
\* returned an error.
C11_Witness ==
  /\ runPc[1] = "done"
  /\ ret[1] = "error"
  /\ ~Unreadable

\* C12: a run without --force that found no output in place and in which
\* every job Succeeded has written one output file per job, no two jobs
\* having the same output path.
C12_OneOutputPerJob ==
  \A r \in Runs :
    (/\ runPc[r] = "done"
     /\ existedAtStart[r] = {}
     /\ ~force[r]
     /\ \A j \in Jobs : status[r][j] = "Succeeded") =>
      /\ Cardinality({ p \in OutPaths : outFiles[p] # Absent }) = NJobs
      /\ \A j, k \in Jobs : j # k => getOutputPath(File(j)) # getOutputPath(File(k))

\* In every step: no transfer starts for a model downloaded and not cleared
\* since, and after a clear no job gets its model without a transfer.
C17_StepOk ==
  \A r \in Runs : \A j \in Jobs :
    /\ modelNote = "downloaded" =>
         Count(calls'[r][j], "Fetch") = Count(calls[r][j], "Fetch")
    /\ (modelNote = "cleared" /\ stage[r][j] = None /\ stage'[r][j] = "ModelReady") =>
         Count(calls'[r][j], "Fetch") > 0

\* C17: once the model has been downloaded, no later request for it starts
\* a transfer until the cache is cleared, and the first request after a
\* cache clear starts a transfer.
C17_CachedUntilCleared == [][C17_StepOk]_vars

\* The file is single-channel 16 kHz PCM already.
RequiredEncoding(f) == IsWav(f) /\ pcm16k

\* C18: a job that reached AudioReady has called the converter if and only
\* if its input was not in the required encoding, and hands the engine its
\* input file exactly when it was.
C18_DirectIffRequiredEncoding ==
  \A r \in Runs : \A j \in Jobs :
    stage[r][j] \in { "AudioReady", "Transcribed", "Written" } =>
      /\ Count(calls[r][j], "Convert") = 0 <=> RequiredEncoding(File(j))
      /\ (cur[r] = j /\ jpc[r] = "engine") =>
           (wavPath[r] = "input" <=> RequiredEncoding(File(j)))

\* C20: every whisper-cli command carries the configured language, the
\* configured prompt, and the path at which the model manager keeps the
\* job's model.
C20_OptionsPassed ==
  \A r \in Runs :
    engineArgs[r] # NoArgs =>
      /\ engineArgs[r].language = opts.Language
      /\ engineArgs[r].prompt = opts.Prompt
      /\ engineArgs[r].model = ModelPath(opts.CacheDir, opts.Model)

\* The text with its whitespace normalised.
Normal(s) == CollapseSpace(TrimSpace(s))

\* A space stands before a comma or a terminal mark.
SpaceBeforeMark(s) ==
  \E i \in 1..(Len(s) - 1) : s[i] = " " /\ s[i + 1] \in { ",", ".", "!", "?" }

\* A terminal mark is doubled.
RepeatedMark(s) ==
  \E i \in 1..(Len(s) - 1) : IsTerminal(s[i]) /\ s[i + 1] = s[i]

Returned == fpc \in { "done", "again" }

\* C13 as stated: the words of the formatted text are the words of the
\* input, in the same order, for every input.
C13_WordPreserving == Returned => Fields(result) = Fields(text)

\* C13 amended: the words of the formatted text are the words of the input,
\* in the same order, for every input in which no space stands before a
\* comma or terminal mark and no terminal mark is doubled.
C13_WordPreservingWhenTidy ==
  (Returned /\ ~SpaceBeforeMark(Normal(text)) /\ ~RepeatedMark(Normal(text))) =>
    Fields(result) = Fields(text)

\* C13 witness: such an input was formatted into several paragraphs.
C13_Witness ==
  /\ fpc = "done"
  /\ ~SpaceBeforeMark(Normal(text)) /\ ~RepeatedMark(Normal(text))
  /\ Len(Paragraphs(result)) >= 2

\* The number of sentences of at least 4 words in paragraph p.
SignificantIn(p) ==
  LET S == splitIntoSentences(p)
  IN  Cardinality({ k \in 1..Len(S) : Len(Fields(S[k])) >= 4 })

\* C14: no paragraph, of the text being built or of the text returned,
\* holds more than 4 sentences of at least 4 words.
C14_SignificanceBound ==
  /\ \A k \in 1..Len(Paragraphs(finalFormattedText)) :
       SignificantIn(Paragraphs(finalFormattedText)[k]) <= 4
  /\ \A k \in 1..Len(Paragraphs(result)) : SignificantIn(Paragraphs(result)[k]) <= 4

\* C14 witness: a text of more than 4 significant sentences was returned
\* with a paragraph of exactly 4.
C14_Witness ==
  /\ fpc = "done"
  /\ Cardinality({ k \in 1..Len(sentences) : Len(Fields(sentences[k])) >= 4 }) > 4
  /\ \E k \in 1..Len(Paragraphs(result)) : SignificantIn(Paragraphs(result)[k]) = 4

\* C15 as stated: formatting the rejoined paragraphs of a result gives the
\* same paragraphs, for every input.
C15_Idempotent == fpc = "again" => Paragraphs(again) = Paragraphs(result)

\* C15 amended: formatting the rejoined paragraphs of a result gives the same
\* paragraphs, for every input in which no space stands before a comma or
\* terminal mark.
C15_IdempotentWhenTidy ==
  (fpc = "again" /\ ~SpaceBeforeMark(Normal(text))) =>
    Paragraphs(again) = Paragraphs(result)

\* C15 witness: such an input, of several paragraphs, was formatted twice.
C15_Witness ==
  /\ fpc = "again"
  /\ ~SpaceBeforeMark(Normal(text))
  /\ Len(Paragraphs(again)) >= 2

\* In every iteration: the candidate is the shortest run of unconsumed
\* sentences with 50 words or more, or all of them; with more than 4
\* significant sentences the paragraph ends at the 4th, otherwise it is the
\* candidate; the next iteration starts right after the paragraph.
C16_StepOk ==
  (fpc = "loop" /\ processedSentenceIndex' # processedSentenceIndex) =>
    LET p == processedSentenceIndex
        n == Len(sentences)
        Run(k) == Join(SubSeq(sentences, p + 1, p + k), << " " >>)
        Words(k) == Len(Fields(Run(k)))
        Sig(k) == Cardinality({ i \in (p + 1)..(p + k) : Len(Fields(sentences[i])) >= 4 })
        cand == CHOOSE k \in 1..(n - p) :
                  /\ Words(k) >= 50 \/ k = n - p
                  /\ \A j \in 1..(k - 1) : Words(j) < 50
        kept == IF Sig(cand) > 4
                  THEN CHOOSE k \in 1..cand :
                         Sig(k) = 4 /\ Len(Fields(sentences[p + k])) >= 4
                  ELSE cand
    IN  /\ processedSentenceIndex' = p + kept
        /\ Paragraphs(finalFormattedText') =
             Append(Paragraphs(finalFormattedText), cleanText(Run(kept)))

\* In every state: k sentences of 5 words each come back as paragraphs of 4
\* sentences and a last one with the rest.
C16_ExampleOk ==
  (Returned /\ sentences # << >>
            /\ \A k \in 1..Len(sentences) : Len(Fields(sentences[k])) = 5) =>
    LET n == Len(sentences)
        P == Paragraphs(result)
    IN  /\ Len(P) = (n + 3) \div 4
        /\ \A k \in 1..Len(P) :
             Len(splitIntoSentences(P[k])) = IF k < Len(P) THEN 4 ELSE n - 4 * (Len(P) - 1)

\* C16: each iteration takes the shortest run of unconsumed sentences that
\* reaches 50 words (or all that remain), ends the paragraph at the 4th
\* significant sentence when the run holds more than 4 and keeps the whole
\* run otherwise, and goes on right after the paragraph; sentences of 5
\* words each come back 4 to a paragraph, the rest in the last one.
C16_TruncateAtFourth == [] C16_ExampleOk /\ [][C16_StepOk]_vars

\* C16 witness: 5 sentences of 5 words each were returned as 2 paragraphs.
C16_Witness ==
  /\ fpc = "done"
  /\ Len(sentences) = 5
  /\ \A k \in 1..Len(sentences) : Len(Fields(sentences[k])) = 5
  /\ Len(Paragraphs(result)) = 2

\* The text of line l that belongs to the transcript.
Content(l) == IF l.kind = "segment" THEN TrimSpace(l.text) ELSE << >>

\* The contents of the lines, without the empty ones, joined by spaces.
Transcript(ls) ==
  Join(SelectSeq([ k \in 1..Len(ls) |-> Content(ls[k]) ], LAMBDA t : t # << >>), << " " >>)

RECURSIVE SucceededWords(_, _)
SucceededWords(r, j) ==
  IF j = 0 THEN 0
  ELSE SucceededWords(r, j - 1)
       + (IF status[r][j] = "Succeeded" THEN WordCount(File(j)) ELSE 0)

\* The jobs of run r that reach a terminal status in this step.
Ending(r) == { j \in Jobs : status[r][j] \notin Terminal /\ status'[r][j] \in Terminal }

\* At the end of a run the counts add up and the words are those of the
\* Succeeded jobs.
C21_CountsOk ==
  \A r \in Runs :
    (runPc[r] = "done" /\ ret[r] = "nil") =>
      /\ successCount[r] + failedCount[r] = NJobs
      /\ successCount[r] = Cardinality({ j \in Jobs : status[r][j] = "Succeeded" })
      /\ failedCount[r] = Cardinality({ j \in Jobs : status[r][j] = "Failed" })
      /\ totalWords[r] = SucceededWords(r, NJobs)

\* No counter ever decreases.
C21_Monotone ==
  \A r \in Runs :
    /\ successCount'[r] >= successCount[r]
    /\ failedCount'[r] >= failedCount[r]
    /\ totalWords'[r] >= totalWords[r]
    /\ bar'[r] >= bar[r]

\* The progress counter goes up by one in the step in which a job ends, and
\* in no other.
C21_ProgressStep == \A r \in Runs : bar'[r] = bar[r] + Cardinality(Ending(r))

\* C21 as stated: at the end of a run successes plus failures are the jobs
\* dispatched, the total words are those of the Succeeded jobs, the progress
\* counter has gone up once per job, when the job ended, and no counter ever
\* decreases.
C21_CountersAddUp ==
  /\ [] C21_CountsOk
  /\ [][C21_Monotone /\ C21_ProgressStep]_vars

\* C21 amended: at the end of a run successes plus failures are the jobs
\* dispatched, the total words are those of the Succeeded jobs and no counter
\* ever decreases; in a run over more than one file the progress counter
\* goes up once per job, when the job ends, and in a run over a single file
\* there is no progress counter.
C21_CountersAddUpWithBar ==
  /\ [] C21_CountsOk
  /\ [][/\ C21_Monotone
        /\ NJobs > 1 => C21_ProgressStep
        /\ NJobs = 1 => \A r \in Runs : bar'[r] = 0]_vars

\* C21 witness: a run over two files has returned with one job Succeeded,
\* one Failed, and the progress counter at 2.
C21_Witness ==
  /\ runPc[1] = "done"
  /\ successCount[1] = 1
  /\ failedCount[1] = 1
  /\ totalWords[1] > 0
  /\ bar[1] = 2

\* C22: every paragraph of the text returned holds at most 4 sentences,
\* significant or not.
C22_AtMostFourSentences ==
  Returned =>
    \A k \in 1..Len(Paragraphs(result)) :
      Len(splitIntoSentences(Paragraphs(result)[k])) <= 4

\* In every state: the loop has made no more iterations (one paragraph each)
\* than it has consumed sentences, and Format has returned only with every
\* sentence consumed.
C25_StateOk ==
  /\ Len(Paragraphs(finalFormattedText)) <= processedSentenceIndex
  /\ processedSentenceIndex <= Len(sentences)
  /\ Returned => processedSentenceIndex = Len(sentences)

\* In every step: an iteration of the loop consumes at least one sentence.
C25_StepOk ==
  (fpc = "loop" /\ processedSentenceIndex < Len(sentences)) =>
    /\ fpc' = "loop"
    /\ processedSentenceIndex' > processedSentenceIndex

C23_StepOk ==
  \A m \in AvailableModels :
    (modelFile[m].state = "complete" /\ modelFile'[m].state = "absent") =>
      modelNote' = "cleared"

\* C23: `cache clean` never removes a model file, however old it is; a model
\* file in the cache directory is removed by `cache clear` only.
C23_CleanKeepsModels == [][C23_StepOk]_vars

\* ---------------------------------------------------------------- C24
\* C24: `config set` followed by `config get` round-trips: for every
\* supported key and every value for which Set returned without error, a
\* later Load of the file followed by Get of that key prints exactly the
\* value that was set.
C24_SetGetRoundTrip ==
  (cfgCall.op = "get" /\ ~cfgCall.err /\ lastSet[cfgCall.key] # Unset)
    => cfgCall.out = lastSet[cfgCall.key]

\* ---------------------------------------------------------------- C26
\* C26: CLI flags override the config file: whenever --model, --workers or
\* --cache-dir is given on the command line, the value used for the run is
\* the flag's value, whatever the config file holds; the config file value
\* is used only when the flag was not given.
C26_FlagsOverrideConfig ==
  cliRun.ran =>
    /\ cliRun.opts.Model =
         IF cliRun.flags.model.given THEN cliRun.flags.model.value ELSE cliRun.cfg.model
    /\ cliRun.opts.Workers =
         IF cliRun.flags.workers.given THEN cliRun.flags.workers.value
                                       ELSE cliRun.cfg.workers
    /\ cliRun.opts.CacheDir =
         IF cliRun.flags.cacheDir.given THEN cliRun.flags.cacheDir.value
                                        ELSE cliRun.cfg.cache_dir

\* ---------------------------------------------------------------- C27
\* The files of the tree, their lower-cased extension in the supported set.
SupportedFiles ==
  { f \in Files \cup { Notes } :
      \E e \in supportedExts : e = f.ext \/ (f.ext = ".MP3" /\ e = ".mp3") }

\* What an input should give: itself for a file, its direct children for a
\* directory, all of its descendants when recursive.
ExpectedOf(p, rec) ==
  IF p.base # ""
    THEN { p } \cap SupportedFiles
    ELSE { f \in SupportedFiles : f.dir = p.dir \/ (rec /\ p.dir = ".") }

\* A set of files as the sequence in path order.
InPathOrder(S) ==
  CHOOSE s \in SeqsUpTo(Cardinality(S)) :
    Len(s) = Cardinality(S) /\ Sorted(s) /\ { s[i] : i \in 1..Len(s) } = S

RECURSIVE ExpectedFrom(_, _, _)
ExpectedFrom(ins, rec, i) ==
  IF i > Len(ins) THEN << >>
  ELSE InPathOrder(ExpectedOf(ins[i], rec)) \o ExpectedFrom(ins, rec, i + 1)

C28_EachFileOnce ==
  \A r \in Runs : \A j, k \in 1..Len(calls[r]) :
    (j # k /\ audioFiles[j] = audioFiles[k]) =>
      ~(/\ \E n \in 1..Len(calls[r][j]) : calls[r][j][n] = "Engine"
        /\ \E n \in 1..Len(calls[r][k]) : calls[r][k][n] = "Engine")

\* ---------------------------------------------------------------- C29
\* In every step: a job that passes the model-ready check, or invokes the
\* engine, finds a completely downloaded file at the model's path; a job
\* that fails in the download leaves no file at that path.
C29_StepOk ==
  \A r \in Runs :
    /\ \A j \in 1..Len(stage[r]) :
         (j <= Len(stage'[r]) /\ stage[r][j] # "ModelReady" /\ stage'[r][j] = "ModelReady")
           => modelFile'[opts.Model].state = "complete"
    /\ \A j \in 1..Len(calls[r]) :
         (j <= Len(calls'[r]) /\ calls'[r][j] = Append(calls[r][j], "Engine"))
           => modelFile[opts.Model].state = "complete"
    /\ (/\ jpc[r] \in { "dl_get", "dl_create", "dl_copy" }
        /\ status'[r] # status[r])
         => modelFile'[opts.Model].state = "absent"

\* C29: a model file is observable at its cache path only when its download
\* has completed: no job passes the model-ready check and no engine is
\* invoked while the file at the path is a partial download, and a download
\* that returns an error leaves no file at the path.
C29_ModelOnlyWhenComplete == [][C29_StepOk]_vars

\* ---------------------------------------------------------------- C30
\* C30: no operation of the per-job pipeline (probe, conversion, engine run,
\* temp cleanup, output write) deletes or overwrites an input audio file of
\* the batch, whether the job succeeds or fails and whether or not the input
\* needed conversion.
C30_InputsUntouched ==
  \A j \in 1..Len(audioFiles) : inputAudio[audioFiles[j]] = "intact"

====
